---- MODULE Spec2Model ----
(***************************************************************************)
(* A model of the table write benchmark of src/main.cpp: the parsed Args,  *)
(* the three synthesized buffers (times, uvws, data), the table and its    *)
(* TIME / UVW / DATA columns, and main's control flow through synthesis,   *)
(* table setup, the validation branch and the benchmark loop.              *)
(*                                                                         *)
(* Values are kept exact: a TIME value is the integer row index, a UVW     *)
(* value i + (j+1)*0.1 is kept in tenths (10*i + j + 1), and a Complex is  *)
(* the pair <<real, imaginary in tenths>>.                                 *)
(*                                                                         *)
(* Explored inputs: nTimes in 0..MaxTimes, nBls in 1..MaxBls, nChs in      *)
(* 1..MaxChs, nPols in 1..MaxPols, nIters in 0..MaxIters.                  *)
(***************************************************************************)
EXTENDS Integers, Sequences, FiniteSets, TLC

MaxTimes == 2
MaxBls == 2
MaxChs == 2
MaxPols == 2
MaxIters == 2
\* bounds of the inputs of the synthesis-only specification
MaxSynthPols == 11
MaxSynthChs == 2
MaxSynthRows == 2

\* length of a UVW cell, IPosition(1, 3)
N_UVW == 3

TableTypes == {"TIME", "UVW", "DATA", "COLUMNWISE", "ROWWISE"}
WriteModes == {"CELL", "CELLS", "COLUMN"}

VARIABLES
    args,       \* the parsed Args struct
    pc,         \* main's position
    todo,       \* the calls of the current switch case still to run
    idx,        \* loop index inside the call at the head of todo
    iter,       \* benchmark loop counter i
    times,      \* Vector<Double> times
    uvws,       \* Array<Float> uvws
    data,       \* Array<Complex> data
    dataDir,    \* the directory "data": "absent", "present" or "removed"
    tab,        \* the table created by setup_table
    timeCol,    \* contents of column TIME, by row
    uvwCol,     \* contents of column UVW, by row
    dataCol,    \* contents of column DATA, by row
    units,      \* the writes committed in the current fill pass, in order
    nWrites,    \* number of writes committed in the whole run
    reads,      \* the reads issued to the table, in order
    passes,     \* number of fill passes started
    warned,     \* the streaming/COLUMN warning was written to cerr
    output,     \* what the run printed: "PASS", "timing"
    err,        \* the exception that ended the run
    corrupted,  \* the element an outside writer changed after the fill
    hist,       \* the run's events in order: "synth", "table", "pass", "write", "read", "PASS", "timing"
    first       \* the units, columns and buffers as the first benchmark pass left them

vars == <<args, pc, todo, idx, iter, times, uvws, data, dataDir, tab, timeCol,
          uvwCol, dataCol, units, nWrites, reads, passes, warned, output, err,
          corrupted, hist, first>>

bufVars == <<times, uvws, data>>
storeVars == <<timeCol, uvwCol, dataCol, units, nWrites>>
envVars == <<dataDir, tab>>

Min(S) == CHOOSE x \in S : \A y \in S : x <= y

ArgsSet ==
    [nIters : 0..MaxIters, nTimes : 0..MaxTimes, nBls : 1..MaxBls,
     nChs : 1..MaxChs, nPols : 1..MaxPols, writeMode : WriteModes,
     tableType : TableTypes, validate : BOOLEAN, stream : BOOLEAN]

Unset == -1
NoErr == [kind |-> "none", at |-> "none", row |-> -1, ind |-> <<>>]
NoTable == [made |-> FALSE, nrow |-> 0, cols |-> {}, uvwShape |-> <<>>, dataShape |-> <<>>]
NoBuf == [shape |-> <<>>, n |-> 0, rows |-> <<>>]
NoCorruption == [field |-> "none", row |-> -1, ind |-> <<>>]
NoFirst == [taken |-> FALSE]
Events(n, e) == [q \in 1..n |-> e]

\* an Array of the given shape whose last axis counts n rows, not yet filled
NewBuf(shape, n, cell) == [shape |-> shape, n |-> n, rows |-> [i \in 0..(n - 1) |-> cell]]

NRows(a) == a.nTimes * a.nBls

Throw(kind, at, row, ind) ==
    /\ pc' = "failed"
    /\ err' = [kind |-> kind, at |-> at, row |-> row, ind |-> ind]

----------------------------------------------------------------------------
(* Array::removeDegenerate: drop every axis of length 1; an array whose axes *)
(* are all of length 1 becomes a vector of length 1.                         *)
NonDegenerate(shape) ==
    LET keep == SelectSeq(shape, LAMBDA x : x # 1)
    IN IF keep = <<>> /\ shape # <<>> THEN <<shape[1]>> ELSE keep

\* Array::operator()(Slicer): rows start..start+len-1 along the last of nd axes;
\* a Slicer whose dimensionality differs from the array's throws
Slice(buf, nd, start, len) ==
    IF Len(buf.shape) = nd /\ start >= 0 /\ start + len <= buf.shape[nd]
    THEN [ok |-> TRUE, shape |-> [buf.shape EXCEPT ![nd] = len],
          vals |-> [r \in 1..len |-> buf.rows[start + r - 1]]]
    ELSE [ok |-> FALSE, shape |-> <<>>, vals |-> <<>>]

\* the whole buffer passed as it is
Whole(buf) == [ok |-> TRUE, shape |-> buf.shape, vals |-> [r \in 1..buf.n |-> buf.rows[r - 1]]]

Scalar_Leak(v) == [ok |-> TRUE, shape |-> <<>>, vals |-> <<v + iter>>]

\* one scalar
Scalar(v) == [ok |-> TRUE, shape |-> <<>>, vals |-> <<v>>]

\* a sliced row with its degenerate axes removed
RowOf(buf, nd, i) ==
    LET s == Slice(buf, nd, i, 1)
    IN IF s.ok THEN [s EXCEPT !.shape = NonDegenerate(s.shape)] ELSE s

----------------------------------------------------------------------------
(* synthesize_data *)

StreamValidateConflict_NoCheck(a) == FALSE

StreamValidateConflict(a) == a.stream /\ a.validate

ResizedRows_ShrinkColumn(a, n) ==
    IF ~a.stream THEN n
    ELSE CASE a.writeMode = "CELL" -> 1
           [] a.writeMode = "CELLS" -> a.nBls
           [] a.writeMode = "COLUMN" -> a.nBls

\* rows of the buffers after the resize switch
ResizedRows(a, n) ==
    IF ~a.stream THEN n
    ELSE CASE a.writeMode = "CELL" -> 1
           [] a.writeMode = "CELLS" -> a.nBls
           [] a.writeMode = "COLUMN" -> n

StreamColumnWarning(a) == a.stream /\ a.writeMode = "COLUMN"

\* uvws(IPosition(2, j, i)) = i + (j+1) * 0.1, in tenths
UvwValue(i, j) == 10 * i + (j + 1)

DataValue_SpecFormula(i, j, k) == <<j, 10 * k + (k + 1)>>

DataValue_DropChannel(i, j, k) == <<i, k + 1>>

\* data(IPosition(3, k, j, i)) = Complex(i, j + (k+1) * 0.1), imaginary part in tenths
DataValue(i, j, k) == <<i, 10 * j + (k + 1)>>

SynthTimes(n) == [i \in 0..(n - 1) |-> i]
SynthUvws(n) == [i \in 0..(n - 1) |-> [j \in 0..(N_UVW - 1) |-> UvwValue(i, j)]]
SynthData(nP, nC, n) ==
    [i \in 0..(n - 1) |-> [k \in 0..(nP - 1) |-> [j \in 0..(nC - 1) |-> DataValue(i, j, k)]]]

RemoveDegenerateIfCell(a, shape) == IF a.writeMode = "CELL" THEN NonDegenerate(shape) ELSE shape

synthesize_data ==
    /\ pc = "synth"
    /\ LET n == ResizedRows(args, times.n)
       IN /\ times' = [shape |-> <<n>>, n |-> n, rows |-> SynthTimes(n)]
          /\ uvws' = [shape |-> RemoveDegenerateIfCell(args, <<N_UVW, n>>), n |-> n,
                      rows |-> SynthUvws(n)]
          /\ data' = [shape |-> RemoveDegenerateIfCell(args, <<args.nPols, args.nChs, n>>),
                      n |-> n, rows |-> SynthData(args.nPols, args.nChs, n)]
    /\ warned' = StreamColumnWarning(args)
    /\ hist' = Append(hist, "synth")
    /\ pc' = "setup"
    /\ UNCHANGED <<args, first, todo, idx, iter, storeVars, envVars, reads, passes, output, err,
                   corrupted>>

----------------------------------------------------------------------------
(* setup_table *)

ColumnsOf(tt) ==
    CASE tt = "TIME" -> {"TIME"}
      [] tt = "UVW" -> {"UVW"}
      [] tt = "DATA" -> {"DATA"}
      [] OTHER -> {"TIME", "UVW", "DATA"}

setup_table ==
    /\ pc = "setup"
    /\ dataDir' = IF dataDir = "present" THEN "removed" ELSE dataDir
    /\ LET n == NRows(args)
           cols == ColumnsOf(args.tableType)
           fresh(f, cell) == IF f \in cols THEN [r \in 0..(n - 1) |-> cell] ELSE <<>>
       IN /\ tab' = [made |-> TRUE, nrow |-> n, cols |-> cols, uvwShape |-> <<N_UVW>>,
                     dataShape |-> <<args.nPols, args.nChs>>]
          /\ timeCol' = fresh("TIME", Unset)
          /\ uvwCol' = fresh("UVW", [j \in 0..(N_UVW - 1) |-> Unset])
          /\ dataCol' = fresh("DATA", [k \in 0..(args.nPols - 1) |->
                                          [j \in 0..(args.nChs - 1) |-> <<Unset, Unset>>]])
    /\ hist' = Append(hist, "table")
    /\ pc' = "branch"
    /\ UNCHANGED <<args, first, todo, idx, iter, bufVars, units, nWrites, reads, passes, warned,
                   output, err, corrupted>>

----------------------------------------------------------------------------
(* The column write operations as the table accepts them.  A write request  *)
(* is [field, op, lo, hi, pay]: rows lo..hi-1 of the column, and the array  *)
(* handed to put / putColumnRange / putColumnCells / putColumn.             *)

CellShape(t, f) ==
    CASE f = "TIME" -> <<>>
      [] f = "UVW" -> t.uvwShape
      [] f = "DATA" -> t.dataShape

\* the shape conformance tests of ScalarColumn / ArrayColumn for a fixed-shape column
Accepts(t, w) ==
    /\ w.field \in t.cols
    /\ w.lo >= 0 /\ w.hi <= t.nrow
    /\ CASE w.op = "put" -> w.pay.shape = CellShape(t, w.field)
         [] w.op \in {"putColumnRange", "putColumnCells"} ->
                w.pay.shape = CellShape(t, w.field) \o <<w.hi - w.lo>>
         [] w.op = "putColumn" -> w.pay.shape = CellShape(t, w.field) \o <<t.nrow>>

Req(f, op, lo, hi, pay) == [field |-> f, op |-> op, lo |-> lo, hi |-> hi, pay |-> pay]

\* index of the first request of ws that throws, 0 when none does
FirstBad(t, ws) ==
    LET bad == {q \in 1..Len(ws) : ~ws[q].pay.ok \/ ~Accepts(t, ws[q])}
    IN IF bad = {} THEN 0 ELSE Min(bad)

Committed(t, ws) ==
    IF FirstBad(t, ws) = 0 THEN ws ELSE SubSeq(ws, 1, FirstBad(t, ws) - 1)

ErrKind(w) == IF ~w.pay.ok THEN "slicer" ELSE "conformance"

\* the column of field f after the committed requests cws
ColAfter(col, f, cws) ==
    LET hit == {q \in 1..Len(cws) : cws[q].field = f}
    IN IF hit = {} THEN col
       ELSE LET w == cws[Min(hit)]
            IN [r \in DOMAIN col |->
                   IF r >= w.lo /\ r < w.hi THEN w.pay.vals[r - w.lo + 1] ELSE col[r]]

UnitOf(w) ==
    [field |-> w.field, op |-> w.op, lo |-> w.lo, hi |-> w.hi, shape |-> w.pay.shape,
     vals |-> w.pay.vals]

\* leave the loop of the call at the head of todo after its last iteration
Advance(n) ==
    IF idx + 1 < n
    THEN idx' = idx + 1 /\ todo' = todo
    ELSE idx' = 0 /\ todo' = Tail(todo)

\* one loop iteration of a fill function: the requests ws in order, up to the
\* first that throws
DoWrites(fn, n, ws) ==
    LET b == FirstBad(tab, ws)
        cws == Committed(tab, ws)
    IN /\ timeCol' = ColAfter(timeCol, "TIME", cws)
       /\ uvwCol' = ColAfter(uvwCol, "UVW", cws)
       /\ dataCol' = ColAfter(dataCol, "DATA", cws)
       /\ units' = units \o [q \in 1..Len(cws) |-> UnitOf(cws[q])]
       /\ nWrites' = nWrites + Len(cws)
       /\ hist' = hist \o Events(Len(cws), "write")
       /\ IF b # 0
          THEN Throw(ErrKind(ws[b]), fn, ws[b].lo, <<>>) /\ UNCHANGED <<todo, idx>>
          ELSE Advance(n) /\ UNCHANGED <<pc, err>>

FillStep(fn, n, ws) ==
    /\ pc = "run" /\ todo # <<>> /\ Head(todo) = fn
    /\ IF n = 0
       THEN /\ idx' = 0 /\ todo' = Tail(todo)
            /\ UNCHANGED <<pc, err, storeVars, hist>>
       ELSE DoWrites(fn, n, ws)
    /\ UNCHANGED <<args, first, iter, bufVars, envVars, reads, passes, warned, output, corrupted>>

\* number of iterations of the loop of a fill function
LoopBound(a) ==
    CASE a.writeMode = "CELL" -> NRows(a)
      [] a.writeMode = "CELLS" -> a.nTimes
      [] a.writeMode = "COLUMN" -> 1

ChunkLo(a, i) == i * a.nBls
\* one past the last row of RefRows(i * nBls, (i + 1) * nBls - 1)
ChunkHi(a, i) == (i + 1) * a.nBls

----------------------------------------------------------------------------
(* fill_* : slice the synthesized buffers; stream_* : pass the buffer whole *)

FillTimeReq(a, i) ==
    CASE a.writeMode = "CELL" -> Req("TIME", "put", i, i + 1, Scalar(times.rows[i]))
      [] a.writeMode = "CELLS" ->
             Req("TIME", "putColumnRange", ChunkLo(a, i), ChunkHi(a, i),
                 Slice(times, 1, ChunkLo(a, i), a.nBls))
      [] a.writeMode = "COLUMN" -> Req("TIME", "putColumn", 0, NRows(a), Whole(times))

StreamTimeReq(a, i) ==
    CASE a.writeMode = "CELL" -> Req("TIME", "put", i, i + 1, Scalar(times.rows[0]))
      [] a.writeMode = "CELLS" ->
             Req("TIME", "putColumnCells", ChunkLo(a, i), ChunkHi(a, i), Whole(times))
      [] a.writeMode = "COLUMN" -> Req("TIME", "putColumn", 0, NRows(a), Whole(times))

FillUvwReq(a, i) ==
    CASE a.writeMode = "CELL" -> Req("UVW", "put", i, i + 1, RowOf(uvws, 2, i))
      [] a.writeMode = "CELLS" ->
             Req("UVW", "putColumnCells", ChunkLo(a, i), ChunkHi(a, i),
                 Slice(uvws, 2, ChunkLo(a, i), a.nBls))
      [] a.writeMode = "COLUMN" -> Req("UVW", "putColumn", 0, NRows(a), Whole(uvws))

StreamUvwReq(a, i) ==
    CASE a.writeMode = "CELL" -> Req("UVW", "put", i, i + 1, Whole(uvws))
      [] a.writeMode = "CELLS" ->
             Req("UVW", "putColumnCells", ChunkLo(a, i), ChunkHi(a, i), Whole(uvws))
      [] a.writeMode = "COLUMN" -> Req("UVW", "putColumn", 0, NRows(a), Whole(uvws))

FillDataReq(a, i) ==
    CASE a.writeMode = "CELL" -> Req("DATA", "put", i, i + 1, RowOf(data, 3, i))
      [] a.writeMode = "CELLS" ->
             Req("DATA", "putColumnCells", ChunkLo(a, i), ChunkHi(a, i),
                 Slice(data, 3, ChunkLo(a, i), a.nBls))
      [] a.writeMode = "COLUMN" -> Req("DATA", "putColumn", 0, NRows(a), Whole(data))

StreamDataReq(a, i) ==
    CASE a.writeMode = "CELL" -> Req("DATA", "put", i, i + 1, Whole(data))
      [] a.writeMode = "CELLS" ->
             Req("DATA", "putColumnCells", ChunkLo(a, i), ChunkHi(a, i), Whole(data))
      [] a.writeMode = "COLUMN" -> Req("DATA", "putColumn", 0, NRows(a), Whole(data))

fill_time_col == FillStep("fill_time_col", LoopBound(args), <<FillTimeReq(args, idx)>>)

stream_time_col == FillStep("stream_time_col", LoopBound(args), <<StreamTimeReq(args, idx)>>)

fill_uvw_col == FillStep("fill_uvw_col", LoopBound(args), <<FillUvwReq(args, idx)>>)

stream_uvw_col == FillStep("stream_uvw_col", LoopBound(args), <<StreamUvwReq(args, idx)>>)

fill_data_col == FillStep("fill_data_col", LoopBound(args), <<FillDataReq(args, idx)>>)

stream_data_col == FillStep("stream_data_col", LoopBound(args), <<StreamDataReq(args, idx)>>)

\* case COLUMN of fill_rowwise and stream_rowwise
RowwiseColumnRejected(a) == a.writeMode = "COLUMN"

RowwiseStep(fn, ws) ==
    IF RowwiseColumnRejected(args)
    THEN /\ pc = "run" /\ todo # <<>> /\ Head(todo) = fn
         /\ Throw("rowwise_column", fn, -1, <<>>) /\ UNCHANGED hist
         /\ UNCHANGED <<args, first, todo, idx, iter, bufVars, storeVars, envVars, reads, passes,
                        warned, output, corrupted>>
    ELSE FillStep(fn, LoopBound(args), ws)

fill_rowwise ==
    RowwiseStep("fill_rowwise",
                <<FillTimeReq(args, idx), FillUvwReq(args, idx), FillDataReq(args, idx)>>)

stream_rowwise ==
    RowwiseStep("stream_rowwise",
                <<StreamTimeReq(args, idx), StreamUvwReq(args, idx), StreamDataReq(args, idx)>>)

----------------------------------------------------------------------------
(* compare_* : read the column back and compare it with the buffers *)

Rd(f, op, lo, hi) == [field |-> f, op |-> op, lo |-> lo, hi |-> hi]

\* shape of ArrayColumn::getColumn(): the shape of the cell in row 0, when the
\* table has one, followed by the number of rows
GetColumnShape(t, f) == IF t.nrow > 0 THEN CellShape(t, f) \o <<t.nrow>> ELSE <<0>>

\* the getColumn() call, made once on entry
ColumnRead(f) == IF idx = 0 THEN <<Rd(f, "getColumn", 0, tab.nrow)>> ELSE <<>>

CompareFrame(fn) ==
    /\ pc = "run" /\ todo # <<>> /\ Head(todo) = fn
    /\ UNCHANGED <<args, first, iter, bufVars, storeVars, envVars, passes, warned, output, corrupted>>

Leave == idx' = 0 /\ todo' = Tail(todo) /\ UNCHANGED <<pc, err>>

\* timeCol(i) != times[i]
TimeDiffers(actual, expected) == actual # expected

compare_time_col ==
    /\ CompareFrame("compare_time_col")
    /\ IF NRows(args) = 0
       THEN Leave /\ UNCHANGED reads
       ELSE /\ reads' = Append(reads, Rd("TIME", "cell", idx, idx + 1))
            /\ IF TimeDiffers(timeCol[idx], times.rows[idx])
               THEN Throw("time_mismatch", "compare_time_col", idx, <<>>)
                    /\ UNCHANGED <<todo, idx>>
               ELSE Advance(NRows(args)) /\ UNCHANGED <<pc, err>>
    /\ hist' = hist \o Events(Len(reads') - Len(reads), "read")

compare_uvw_col ==
    /\ CompareFrame("compare_uvw_col")
    /\ LET fn == "compare_uvw_col"
           shape == uvws.shape
           expected == RowOf(uvws, 2, idx)
           bad == {j \in 0..(shape[1] - 1) : uvwCol[idx][j] # expected.vals[1][j]}
       IN IF idx = 0 /\ shape # GetColumnShape(tab, "UVW")
          THEN /\ reads' = reads \o ColumnRead("UVW")
               /\ Throw("shape_mismatch", fn, -1, <<>>) /\ UNCHANGED <<todo, idx>>
          ELSE IF tab.nrow = 0
          THEN reads' = reads \o ColumnRead("UVW") /\ Leave
          ELSE /\ reads' = reads \o ColumnRead("UVW") \o <<Rd("UVW", "cell", idx, idx + 1)>>
               /\ IF ~expected.ok
                  THEN Throw("slicer", fn, idx, <<>>) /\ UNCHANGED <<todo, idx>>
                  ELSE IF CellShape(tab, "UVW") # expected.shape
                  THEN Throw("shape_mismatch", fn, idx, <<>>) /\ UNCHANGED <<todo, idx>>
                  ELSE IF bad # {}
                  THEN Throw("uvw_mismatch", fn, idx, <<Min(bad)>>) /\ UNCHANGED <<todo, idx>>
                  ELSE Advance(tab.nrow) /\ UNCHANGED <<pc, err>>
    /\ hist' = hist \o Events(Len(reads') - Len(reads), "read")

compare_data_col ==
    /\ CompareFrame("compare_data_col")
    /\ LET fn == "compare_data_col"
           shape == data.shape
           expected == RowOf(data, 3, idx)
           \* loop j over shape[1] (outer), k over shape[0] (inner), index (k, j)
           bad == {jk \in (0..(shape[2] - 1)) \X (0..(shape[1] - 1)) :
                      dataCol[idx][jk[2]][jk[1]] # expected.vals[1][jk[2]][jk[1]]}
           j0 == Min({jk[1] : jk \in bad})
           k0 == Min({jk[2] : jk \in {x \in bad : x[1] = j0}})
       IN IF idx = 0 /\ shape # GetColumnShape(tab, "DATA")
          THEN /\ reads' = reads \o ColumnRead("DATA")
               /\ Throw("shape_mismatch", fn, -1, <<>>) /\ UNCHANGED <<todo, idx>>
          ELSE IF tab.nrow = 0
          THEN reads' = reads \o ColumnRead("DATA") /\ Leave
          ELSE /\ reads' = reads \o ColumnRead("DATA") \o <<Rd("DATA", "cell", idx, idx + 1)>>
               /\ IF ~expected.ok
                  THEN Throw("slicer", fn, idx, <<>>) /\ UNCHANGED <<todo, idx>>
                  ELSE IF CellShape(tab, "DATA") # expected.shape
                  THEN Throw("shape_mismatch", fn, idx, <<>>) /\ UNCHANGED <<todo, idx>>
                  ELSE IF bad # {}
                  THEN Throw("data_mismatch", fn, idx, <<j0, k0>>) /\ UNCHANGED <<todo, idx>>
                  ELSE Advance(tab.nrow) /\ UNCHANGED <<pc, err>>
    /\ hist' = hist \o Events(Len(reads') - Len(reads), "read")

----------------------------------------------------------------------------
(* main *)

main_args ==
    /\ pc = "parsed"
    /\ IF StreamValidateConflict(args)
       THEN Throw("stream_validate", "main", -1, <<>>)
       ELSE pc' = "alloc" /\ UNCHANGED err
    /\ UNCHANGED <<args, first, todo, idx, iter, bufVars, storeVars, envVars, reads, passes,
                   warned, output, corrupted>>
    /\ UNCHANGED hist

main_alloc ==
    /\ pc = "alloc"
    /\ LET n == NRows(args)
       IN /\ times' = NewBuf(<<n>>, n, Unset)
          /\ uvws' = NewBuf(<<N_UVW, n>>, n, [j \in 0..(N_UVW - 1) |-> Unset])
          /\ data' = NewBuf(<<args.nPols, args.nChs, n>>, n,
                            [k \in 0..(args.nPols - 1) |->
                                [j \in 0..(args.nChs - 1) |-> <<Unset, Unset>>]])
    /\ pc' = "synth"
    /\ UNCHANGED <<args, first, todo, idx, iter, storeVars, envVars, reads, passes, warned,
                   output, err, corrupted>>
    /\ UNCHANGED hist

ValidateCalls_Interleaved(tt) ==
    CASE tt = "TIME" -> <<"fill_time_col", "compare_time_col">>
      [] tt = "UVW" -> <<"fill_uvw_col", "compare_uvw_col">>
      [] tt = "DATA" -> <<"fill_data_col", "compare_data_col">>
      [] tt = "COLUMNWISE" ->
             <<"fill_time_col", "compare_time_col", "fill_uvw_col", "compare_uvw_col",
               "fill_data_col", "compare_data_col">>
      [] tt = "ROWWISE" ->
             <<"fill_rowwise", "compare_time_col", "compare_uvw_col", "compare_data_col">>

ValidateCalls(tt) ==
    CASE tt = "TIME" -> <<"fill_time_col", "compare_time_col">>
      [] tt = "UVW" -> <<"fill_uvw_col", "compare_uvw_col">>
      [] tt = "DATA" -> <<"fill_data_col", "compare_data_col">>
      [] tt = "COLUMNWISE" ->
             <<"fill_time_col", "fill_uvw_col", "fill_data_col",
               "compare_time_col", "compare_uvw_col", "compare_data_col">>
      [] tt = "ROWWISE" ->
             <<"fill_rowwise", "compare_time_col", "compare_uvw_col", "compare_data_col">>

BenchCalls_DataFirst(tt, stream) ==
    CASE tt = "TIME" -> IF stream THEN <<"stream_time_col">> ELSE <<"fill_time_col">>
      [] tt = "UVW" -> IF stream THEN <<"stream_uvw_col">> ELSE <<"fill_uvw_col">>
      [] tt = "DATA" -> IF stream THEN <<"stream_data_col">> ELSE <<"fill_data_col">>
      [] tt = "COLUMNWISE" ->
             IF stream THEN <<"stream_data_col", "stream_uvw_col", "stream_time_col">>
             ELSE <<"fill_data_col", "fill_uvw_col", "fill_time_col">>
      [] tt = "ROWWISE" -> IF stream THEN <<"stream_rowwise">> ELSE <<"fill_rowwise">>

BenchCalls(tt, stream) ==
    CASE tt = "TIME" -> IF stream THEN <<"stream_time_col">> ELSE <<"fill_time_col">>
      [] tt = "UVW" -> IF stream THEN <<"stream_uvw_col">> ELSE <<"fill_uvw_col">>
      [] tt = "DATA" -> IF stream THEN <<"stream_data_col">> ELSE <<"fill_data_col">>
      [] tt = "COLUMNWISE" ->
             IF stream THEN <<"stream_time_col", "stream_uvw_col", "stream_data_col">>
             ELSE <<"fill_time_col", "fill_uvw_col", "fill_data_col">>
      [] tt = "ROWWISE" -> IF stream THEN <<"stream_rowwise">> ELSE <<"fill_rowwise">>

\* if (args.validate) ... else Timer timer; int i = 0;
main_branch ==
    /\ pc = "branch"
    /\ IF args.validate
       THEN /\ todo' = ValidateCalls(args.tableType)
            /\ pc' = "run" /\ passes' = passes + 1
            /\ hist' = Append(hist, "pass")
       ELSE /\ pc' = "loop" /\ UNCHANGED <<todo, passes, hist>>
    /\ idx' = 0 /\ iter' = 0 /\ units' = <<>>
    /\ UNCHANGED <<args, first, bufVars, timeCol, uvwCol, dataCol, nWrites, envVars, reads, warned,
                   output, err, corrupted>>

\* what the pass just ended committed and left behind
Snapshot ==
    [taken |-> TRUE, units |-> units, timeCol |-> timeCol, uvwCol |-> uvwCol,
     dataCol |-> dataCol, times |-> times, uvws |-> uvws, data |-> data]

\* while (i++ < args.nIters)
main_loop ==
    /\ pc = "loop"
    /\ IF iter < args.nIters
       THEN /\ iter' = iter + 1
            /\ todo' = BenchCalls(args.tableType, args.stream)
            /\ idx' = 0 /\ units' = <<>> /\ passes' = passes + 1
            /\ hist' = Append(hist, "pass")
            /\ pc' = "run"
       ELSE pc' = "report" /\ UNCHANGED <<iter, todo, idx, units, passes, hist>>
    /\ first' = IF iter = 1 THEN Snapshot ELSE first
    /\ UNCHANGED <<args, bufVars, timeCol, uvwCol, dataCol, nWrites, envVars, reads, warned,
                   output, err, corrupted>>

\* the end of the switch: printf("PASS\n"); return 0;  or the next loop test
main_pass_end ==
    /\ pc = "run" /\ todo = <<>>
    /\ IF args.validate
       THEN output' = Append(output, "PASS") /\ hist' = Append(hist, "PASS") /\ pc' = "done"
       ELSE pc' = "loop" /\ UNCHANGED <<output, hist>>
    /\ UNCHANGED <<args, first, todo, idx, iter, bufVars, storeVars, envVars, reads, passes,
                   warned, err, corrupted>>

ReportsTiming_Always(a) == TRUE

\* if (args.nIters > 0)
ReportsTiming(a) == a.nIters > 0

main_report ==
    /\ pc = "report"
    /\ output' = IF ReportsTiming(args) THEN Append(output, "timing") ELSE output
    /\ hist' = IF ReportsTiming(args) THEN Append(hist, "timing") ELSE hist
    /\ pc' = "done"
    /\ UNCHANGED <<args, first, todo, idx, iter, bufVars, storeVars, envVars, reads, passes,
                   warned, err, corrupted>>

----------------------------------------------------------------------------
Init ==
    /\ args \in ArgsSet
    /\ pc = "parsed"
    /\ todo = <<>> /\ idx = 0 /\ iter = 0
    /\ times = NoBuf /\ uvws = NoBuf /\ data = NoBuf
    /\ dataDir \in {"absent", "present"}
    /\ tab = NoTable
    /\ timeCol = <<>> /\ uvwCol = <<>> /\ dataCol = <<>>
    /\ units = <<>> /\ nWrites = 0 /\ reads = <<>> /\ passes = 0
    /\ warned = FALSE /\ output = <<>> /\ err = NoErr
    /\ corrupted = NoCorruption
    /\ hist = <<>> /\ first = NoFirst

Next ==
    \/ main_args
    \/ main_alloc
    \/ synthesize_data
    \/ setup_table
    \/ main_branch
    \/ main_loop
    \/ main_pass_end
    \/ main_report
    \/ fill_time_col
    \/ stream_time_col
    \/ fill_uvw_col
    \/ stream_uvw_col
    \/ fill_data_col
    \/ stream_data_col
    \/ fill_rowwise
    \/ stream_rowwise
    \/ compare_time_col
    \/ compare_uvw_col
    \/ compare_data_col

Spec == Init /\ [][Next]_vars

----------------------------------------------------------------------------
(* The synthesis alone, on shapes with many polarizations: main up to the   *)
(* return of synthesize_data.                                               *)

SynthArgsSet ==
    [nIters : {0}, nTimes : 1..MaxSynthRows, nBls : {1}, nChs : 1..MaxSynthChs,
     nPols : 1..MaxSynthPols, writeMode : WriteModes, tableType : {"DATA"},
     validate : {FALSE}, stream : BOOLEAN]

InitSynth ==
    /\ args \in SynthArgsSet
    /\ pc = "parsed"
    /\ todo = <<>> /\ idx = 0 /\ iter = 0
    /\ times = NoBuf /\ uvws = NoBuf /\ data = NoBuf
    /\ dataDir = "absent"
    /\ tab = NoTable
    /\ timeCol = <<>> /\ uvwCol = <<>> /\ dataCol = <<>>
    /\ units = <<>> /\ nWrites = 0 /\ reads = <<>> /\ passes = 0
    /\ warned = FALSE /\ output = <<>> /\ err = NoErr
    /\ corrupted = NoCorruption
    /\ hist = <<>> /\ first = NoFirst

NextSynth ==
    \/ main_args
    \/ main_alloc
    \/ synthesize_data

SpecSynth == InitSynth /\ [][NextSynth]_vars

----------------------------------------------------------------------------
(* A writer outside the program changes one element of one row of the table *)
(* between the fill and the first read of a validation run.                 *)

CompareFns == {"compare_time_col", "compare_uvw_col", "compare_data_col"}
FillFns == {"fill_time_col", "fill_uvw_col", "fill_data_col", "fill_rowwise",
            "stream_time_col", "stream_uvw_col", "stream_data_col", "stream_rowwise"}

Corrupt ==
    /\ pc = "run" /\ args.validate /\ todo # <<>> /\ Head(todo) \in CompareFns
    /\ reads = <<>> /\ corrupted = NoCorruption
    /\ \E f \in tab.cols : \E r \in 0..(tab.nrow - 1) :
          \/ /\ f = "TIME"
             /\ timeCol' = [timeCol EXCEPT ![r] = @ + 1]
             /\ corrupted' = [field |-> f, row |-> r, ind |-> <<>>]
             /\ UNCHANGED <<uvwCol, dataCol>>
          \/ /\ f = "UVW"
             /\ \E j \in 0..(N_UVW - 1) :
                   /\ uvwCol' = [uvwCol EXCEPT ![r][j] = @ + 1]
                   /\ corrupted' = [field |-> f, row |-> r, ind |-> <<j>>]
             /\ UNCHANGED <<timeCol, dataCol>>
          \/ /\ f = "DATA"
             /\ \E k \in 0..(args.nPols - 1) : \E j \in 0..(args.nChs - 1) : \E part \in 1..2 :
                   /\ dataCol' = [dataCol EXCEPT ![r][k][j][part] = @ + 1]
                   /\ corrupted' = [field |-> f, row |-> r, ind |-> <<j, k>>]
             /\ UNCHANGED <<timeCol, uvwCol>>
    /\ UNCHANGED <<args, first, pc, todo, idx, iter, bufVars, units, nWrites, envVars, reads,
                   passes, warned, output, err>>
    /\ UNCHANGED hist

NextCorrupt == Next \/ Corrupt

SpecCorrupt == Init /\ [][NextCorrupt]_vars

----------------------------------------------------------------------------
(* Properties *)

ValidShape(a) == a.nTimes >= 1 /\ a.nBls >= 1 /\ a.nChs >= 1 /\ a.nPols >= 1
RowwiseColumn(a) == a.tableType = "ROWWISE" /\ a.writeMode = "COLUMN"
Ended == pc \in {"done", "failed"}
\* synthesize_data has returned
Synthesized == pc \notin {"parsed", "alloc", "synth"} /\ err.kind # "stream_validate"
FillFailed == pc = "failed" /\ err.at \in FillFns
\* the fill calls of the current pass are over
FillOver ==
    /\ passes >= 1
    /\ \/ pc \in {"loop", "report", "done", "failed"}
       \/ pc = "run" /\ \A q \in 1..Len(todo) : todo[q] \notin FillFns
UnitsOf(f) == SelectSeq(units, LAMBDA u : u.field = f)

\* C1: a run asked both to stream and to validate ends in the stream/validate
\* error at once: the directory is not removed, no table is made, nothing is
\* written or read, nothing is printed.
C1_StreamValidateRejected ==
    (args.stream /\ args.validate) =>
        /\ pc \in {"parsed", "failed"}
        /\ pc = "failed" => err.kind = "stream_validate"
        /\ dataDir # "removed"
        /\ ~tab.made
        /\ times = NoBuf
        /\ nWrites = 0 /\ units = <<>> /\ reads = <<>> /\ output = <<>>

C1_Witness ==
    /\ args.stream /\ args.validate /\ pc = "failed" /\ dataDir = "present"
    /\ args.tableType = "ROWWISE" /\ args.writeMode = "COLUMN"

\* C2: a ROWWISE run in COLUMN mode never commits a write and never ends
\* normally (it is rejected), whatever the mode and the iteration count.
C2_RowwiseColumnRejected ==
    RowwiseColumn(args) => (nWrites = 0 /\ pc # "done")

\* C3: a validation run without streaming, on a shape with all dimensions >= 1
\* and a write mode the table type supports, never fails and ends with PASS,
\* every column of the table then holding the synthesized values.
C3_RoundTrip ==
    (ValidShape(args) /\ args.validate /\ ~args.stream /\ ~RowwiseColumn(args)) =>
        /\ pc # "failed"
        /\ pc = "done" =>
              /\ output = <<"PASS">>
              /\ "TIME" \in tab.cols => timeCol = SynthTimes(NRows(args))
              /\ "UVW" \in tab.cols => uvwCol = SynthUvws(NRows(args))
              /\ "DATA" \in tab.cols => dataCol = SynthData(args.nPols, args.nChs, NRows(args))

\* the row ranges of us are pairwise disjoint, non-empty and cover 0..n-1
Tiles(us, n) ==
    /\ \A q \in 1..Len(us) : 0 <= us[q].lo /\ us[q].lo < us[q].hi /\ us[q].hi <= n
    /\ \A r \in 0..(n - 1) :
          Cardinality({q \in 1..Len(us) : us[q].lo <= r /\ r < us[q].hi}) = 1

\* C4: once the fill calls of a pass are over, the row ranges of the units
\* committed for each column of the table tile [0, nTimes*nBls); in CELLS mode
\* the t-th unit is [t*nBls, (t+1)*nBls).
C4_Tile ==
    (ValidShape(args) /\ ~RowwiseColumn(args) /\ FillOver) =>
        \A f \in tab.cols :
            /\ Tiles(UnitsOf(f), NRows(args))
            /\ args.writeMode = "CELLS" =>
                  /\ Len(UnitsOf(f)) = args.nTimes
                  /\ \A t \in 0..(args.nTimes - 1) :
                        /\ UnitsOf(f)[t + 1].lo = t * args.nBls
                        /\ UnitsOf(f)[t + 1].hi = (t + 1) * args.nBls

MismatchKind(f) ==
    CASE f = "TIME" -> "time_mismatch"
      [] f = "UVW" -> "uvw_mismatch"
      [] f = "DATA" -> "data_mismatch"
      [] OTHER -> "none"

\* C5: with one element of one row changed after a correct fill, the run ends
\* in the value mismatch of that column naming that row and those indices, and
\* no read of that column reaches a row after the changed one.
C5_FailFast ==
    (corrupted # NoCorruption) =>
        /\ \A q \in 1..Len(reads) :
              reads[q].field = corrupted.field => reads[q].hi <= corrupted.row + 1
        /\ Ended =>
              /\ pc = "failed"
              /\ err.kind = MismatchKind(corrupted.field)
              /\ err.row = corrupted.row
              /\ err.ind = corrupted.ind

\* C6 as stated: a benchmark run of zero iterations writes nothing, does not
\* fail, and ends having printed the timing report.
C6_ZeroIterationsReport ==
    (~args.validate /\ args.nIters = 0 /\ ValidShape(args)) =>
        /\ nWrites = 0
        /\ pc # "failed"
        /\ pc = "done" => output = <<"timing">>

\* C6 as amended: a benchmark run of zero iterations writes nothing, does not
\* fail, and prints no timing report.
C6_ZeroIterations ==
    (~args.validate /\ args.nIters = 0 /\ ValidShape(args)) =>
        /\ nWrites = 0 /\ units = <<>> /\ passes = 0
        /\ pc # "failed"
        /\ output = <<>>

C6_Witness ==
    ~args.validate /\ args.nIters = 0 /\ ValidShape(args) /\ pc = "done" /\ tab.made

\* C7: with a shape dimension that is zero or negative the run ends in an
\* error, no buffer allocated, the directory not removed, no table made,
\* nothing written, neither PASS nor the timing report printed.
C7_NonPositiveRejected ==
    (~ValidShape(args) /\ Ended) =>
        /\ pc = "failed"
        /\ times = NoBuf /\ uvws = NoBuf /\ data = NoBuf
        /\ dataDir # "removed" /\ ~tab.made
        /\ nWrites = 0 /\ output = <<>>

Degenerate(a) == (a.nTimes = 1 /\ a.nBls = 1) \/ a.nChs = 1 \/ a.nPols = 1

\* C8: on a degenerate shape (one row, one channel or one polarization), in a
\* run that slices the buffers, every unit committed carries the column's cell
\* shape times its row count, no fill call fails, and on shape (1,1,1,1) the
\* DATA cell of row 0 holds (0, 0.1) once the fill is over.
C8_Degenerate ==
    (ValidShape(args) /\ Degenerate(args) /\ ~RowwiseColumn(args) /\ ~args.stream) =>
        /\ \A q \in 1..Len(units) :
              units[q].shape =
                  CellShape(tab, units[q].field)
                      \o (IF units[q].op = "put" THEN <<>> ELSE <<units[q].hi - units[q].lo>>)
        /\ ~FillFailed
        /\ (NRows(args) = 1 /\ args.nChs = 1 /\ args.nPols = 1 /\ "DATA" \in tab.cols
              /\ FillOver) => dataCol[0][0][0] = <<0, 1>>

RefVals(f, a) ==
    CASE f = "TIME" -> [r \in 1..NRows(a) |-> r - 1]
      [] f = "UVW" -> [r \in 1..NRows(a) |-> [j \in 0..(N_UVW - 1) |-> 10 * (r - 1) + j + 1]]
      [] f = "DATA" -> [r \in 1..NRows(a) |-> [k \in 0..(a.nPols - 1) |->
                           [j \in 0..(a.nChs - 1) |-> <<r - 1, 10 * j + k + 1>>]]]

\* C9: a streaming benchmark run in COLUMN mode on a table type other than
\* ROWWISE warns and does not fail: the buffers keep all nTimes*nBls rows,
\* every unit committed is a putColumn of the whole synthesized field, and the
\* loop runs all its iterations.
C9_StreamColumn ==
    (args.stream /\ ~args.validate /\ args.writeMode = "COLUMN"
       /\ args.tableType # "ROWWISE" /\ ValidShape(args)) =>
        /\ pc # "failed"
        /\ Synthesized =>
              /\ warned
              /\ times.shape = <<NRows(args)>>
              /\ uvws.shape = <<N_UVW, NRows(args)>>
              /\ data.shape = <<args.nPols, args.nChs, NRows(args)>>
        /\ \A q \in 1..Len(units) :
              /\ units[q].op = "putColumn"
              /\ units[q].lo = 0 /\ units[q].hi = NRows(args)
              /\ units[q].vals = RefVals(units[q].field, args)
        /\ pc = "done" =>
              /\ passes = args.nIters
              /\ nWrites = args.nIters * Cardinality(tab.cols)

C9_Witness ==
    /\ args.stream /\ ~args.validate /\ args.writeMode = "COLUMN"
    /\ args.tableType = "COLUMNWISE" /\ args.nTimes >= 2 /\ args.nBls >= 2
    /\ pc = "done" /\ args.nIters >= 2 /\ warned /\ nWrites >= 6

\* C10 as stated: every synthesized DATA element at (row i, pol, ch) is
\* (real = ch, imag = pol + (pol+1)*0.1).
C10_SpecFormula ==
    (ValidShape(args) /\ Synthesized) =>
        \A i \in 0..(data.n - 1) : \A k \in 0..(args.nPols - 1) : \A j \in 0..(args.nChs - 1) :
            data.rows[i][k][j] = <<j, 10 * k + (k + 1)>>

\* C10 as amended: every synthesized DATA element at (row i, pol, ch) is
\* (real = i, imag = ch + (pol+1)*0.1), whatever the write mode and the table
\* type; without streaming the buffer holds all nTimes*nBls rows.
C10_DataFormula ==
    (ValidShape(args) /\ Synthesized) =>
        /\ ~args.stream => data.n = NRows(args)
        /\ data.n >= 1
        /\ \A i \in 0..(data.n - 1) : \A k \in 0..(args.nPols - 1) : \A j \in 0..(args.nChs - 1) :
              data.rows[i][k][j] = <<i, 10 * j + (k + 1)>>

C10_Witness ==
    /\ Synthesized /\ ~args.stream /\ data.n >= 2 /\ args.nPols >= 2 /\ args.nChs >= 2
    /\ data.rows[1][1][0] = <<1, 2>>


\* the (row, pol, ch) triples of the synthesized DATA buffer
Triples == (0..(data.n - 1)) \X (0..(args.nPols - 1)) \X (0..(args.nChs - 1))
DataAt(t) == data.rows[t[1]][t[2]][t[3]]
DataInjective == \A t1 \in Triples : \A t2 \in Triples : t1 # t2 => DataAt(t1) # DataAt(t2)

\* C11 as stated: for every shape, however many polarizations and channels,
\* two distinct (row, pol, ch) triples of the synthesized DATA buffer hold
\* two distinct values.
C11_Distinct ==
    (ValidShape(args) /\ Synthesized) => DataInjective

\* C11 as amended: the same, for shapes of at most 10 polarizations.
C11_DistinctUpTo10Pols ==
    (ValidShape(args) /\ Synthesized /\ args.nPols <= 10) => DataInjective

C11_Witness ==
    /\ Synthesized /\ args.nPols = 10 /\ args.nChs >= 2 /\ data.n >= 2
    /\ DataAt(<<1, 9, 0>>) = <<1, 10>> /\ DataAt(<<1, 0, 1>>) = <<1, 11>>


\* how often, and where first and last, an event stands in the history of main
Count(e) == Len(SelectSeq(hist, LAMBDA x : x = e))
Positions(e) == {q \in 1..Len(hist) : hist[q] = e}
Before(e1, e2) == \A p \in Positions(e1) : \A q \in Positions(e2) : p < q
\* main threw on the stream/validate combination, before any other step
Rejected == err.kind = "stream_validate"

\* C12 as stated: every run that has ended has synthesized once, made the
\* table once, in that order, and has then made one fill pass with all writes
\* before all reads (validation) or nIters fill passes and no read (benchmark).
C12_EveryRun ==
    Ended =>
        /\ Count("synth") = 1 /\ Count("table") = 1 /\ Before("synth", "table")
        /\ args.validate =>
              Count("pass") = 1 /\ Before("write", "read") /\ Count("timing") = 0
        /\ ~args.validate => Count("pass") = args.nIters /\ Count("read") = 0

\* C12 as amended: a run rejected for combining stream and validate does
\* nothing at all; every other run synthesizes once, then makes the table once,
\* and then either validates (one fill pass, every write before every read,
\* ending in PASS or in failure, never in the benchmark loop) or benchmarks
\* (no read ever; nIters fill passes when it ends without error, and when a
\* fill throws, failure inside a pass numbered at most nIters).
C12_DriverSequencing ==
    /\ Rejected => hist = <<>>
    /\ Count("synth") <= 1 /\ Count("table") <= 1
    /\ Before("synth", "table")
    /\ \A e \in {"pass", "write", "read", "PASS", "timing"} : Before("table", e)
    /\ (Count("table") = 1 \/ Len(hist) >= 2) => hist[1] = "synth"
    /\ Len(hist) >= 2 => hist[2] = "table"
    /\ (Ended /\ ~Rejected) => Count("synth") = 1 /\ Count("table") = 1
    /\ args.validate =>
          /\ pc \notin {"loop", "report"} /\ iter = 0
          /\ Count("pass") <= 1 /\ Count("timing") = 0
          /\ Before("pass", "write") /\ Before("write", "read") /\ Before("read", "PASS")
          /\ (Ended /\ ~Rejected) => Count("pass") = 1
          /\ pc = "done" => Count("PASS") = 1 /\ hist[Len(hist)] = "PASS"
          /\ (Ended /\ ~Rejected) => (pc = "done" \/ (pc = "failed" /\ Count("PASS") = 0))
    /\ ~args.validate =>
          /\ Count("read") = 0 /\ reads = <<>> /\ Count("PASS") = 0
          /\ Count("pass") = iter /\ iter <= args.nIters
          /\ pc \in {"report", "done"} => Count("pass") = args.nIters
          /\ pc = "failed" => Count("pass") >= 1 /\ Count("timing") = 0
          /\ \A q \in Positions("timing") : q = Len(hist)

C12_WitnessValidate ==
    /\ args.validate /\ pc = "done" /\ args.tableType = "COLUMNWISE"
    /\ Count("write") >= 3 /\ Count("read") >= 3 /\ Count("PASS") = 1

C12_Witness ==
    /\ ~args.validate /\ pc = "done" /\ args.nIters = 2
    /\ Count("pass") = 2 /\ Count("write") >= 2 /\ Count("timing") = 1


\* the positions in the unit log of the current pass of the units of field f
UnitPositions(f) == {q \in 1..Len(units) : units[q].field = f}
FieldOrder == <<"TIME", "UVW", "DATA">>
\* the row range of the g-th row (CELL) or time-step chunk (CELLS), from 0
GroupLo(g) == IF args.writeMode = "CELL" THEN g ELSE g * args.nBls
GroupHi(g) == IF args.writeMode = "CELL" THEN g + 1 ELSE (g + 1) * args.nBls
\* a fill pass is running or has ended
InPass == passes >= 1 /\ pc \in {"run", "loop", "report", "done", "failed"}

\* C13: at every moment of a fill pass the units committed so far for each
\* field have strictly increasing row ranges; in ROWWISE mode they come in
\* groups Time, Uvw, Data over the same row range, row after row (CELL) or
\* chunk after chunk (CELLS), a group being complete before the next begins;
\* in COLUMNWISE mode all Time units come before all Uvw units and these
\* before all Data units; a pass that ends without error has committed every
\* group, respectively every unit of every field.
C13_CommitOrder ==
    InPass =>
        /\ \A f \in {"TIME", "UVW", "DATA"} :
              \A q \in 1..(Len(UnitsOf(f)) - 1) :
                  /\ UnitsOf(f)[q].lo < UnitsOf(f)[q + 1].lo
                  /\ UnitsOf(f)[q].hi <= UnitsOf(f)[q + 1].lo
        /\ args.tableType = "ROWWISE" =>
              /\ args.writeMode # "COLUMN" =>
                    /\ \A q \in 1..Len(units) :
                          /\ units[q].field = FieldOrder[((q - 1) % 3) + 1]
                          /\ units[q].lo = GroupLo((q - 1) \div 3)
                          /\ units[q].hi = GroupHi((q - 1) \div 3)
                    /\ (FillOver /\ pc # "failed") => Len(units) = 3 * LoopBound(args)
              /\ args.writeMode = "COLUMN" => units = <<>>
        /\ args.tableType = "COLUMNWISE" =>
              /\ \A p \in UnitPositions("TIME") : \A q \in UnitPositions("UVW") : p < q
              /\ \A p \in UnitPositions("UVW") : \A q \in UnitPositions("DATA") : p < q
              /\ (FillOver /\ pc # "failed") =>
                    \A f \in {"TIME", "UVW", "DATA"} :
                        Cardinality(UnitPositions(f)) = LoopBound(args)

C13_Witness ==
    /\ args.tableType = "ROWWISE" /\ args.writeMode = "CELLS" /\ ~args.validate
    /\ args.nTimes = 2 /\ args.nBls = 2 /\ pc = "done" /\ Len(units) = 6
    /\ units[4].field = "TIME" /\ units[4].lo = 2 /\ units[6].field = "DATA" /\ units[6].hi = 4

C13_WitnessColumnwise ==
    /\ args.tableType = "COLUMNWISE" /\ args.writeMode = "CELL" /\ ~args.validate
    /\ args.nTimes = 2 /\ pc = "done" /\ Len(units) = 3 * NRows(args)


IsPrefix(s, t) == Len(s) <= Len(t) /\ s = SubSeq(t, 1, Len(s))
\* an iteration of the benchmark loop has just ended, or the loop is over
PassEnded == pc \in {"loop", "report", "done"}

\* C14: in a benchmark run, from the end of the first iteration on, the units
\* (field, row range, payload) committed by every later iteration are, in
\* order, those of the first iteration and all of them; the buffers are what
\* synthesize_data left and what they were after the first iteration; no later
\* iteration fails; and in a run that slices the buffers the three columns
\* after every later iteration hold what they held after the first.
C14_Restartable ==
    (~args.validate /\ first.taken) =>
        /\ iter >= 1 /\ iter <= args.nIters /\ pc # "failed"
        /\ IsPrefix(units, first.units)
        /\ PassEnded => units = first.units
        /\ times = first.times /\ uvws = first.uvws /\ data = first.data
        /\ times.rows = SynthTimes(times.n)
        /\ uvws.rows = SynthUvws(uvws.n)
        /\ data.rows = SynthData(args.nPols, args.nChs, data.n)
        /\ (~args.stream /\ PassEnded) =>
              timeCol = first.timeCol /\ uvwCol = first.uvwCol /\ dataCol = first.dataCol

C14_Witness ==
    /\ ~args.validate /\ ~args.stream /\ args.nIters = 2 /\ iter = 2 /\ pc = "done"
    /\ first.taken /\ Len(first.units) >= 2 /\ units = first.units
    /\ args.tableType = "TIME" /\ args.writeMode = "CELL" /\ timeCol = first.timeCol


\* the shape the store requires of the payload of unit u: the declared shape
\* of a cell of the column, followed by the row count unless u is one cell
RequiredShape(u) ==
    IF u.op = "put" THEN CellShape(tab, u.field)
    ELSE CellShape(tab, u.field) \o <<u.hi - u.lo>>

\* C15: in a streaming run in CELL or CELLS mode on a shape with all
\* dimensions >= 1, no put call fails on the shape of its payload, every unit
\* committed has the shape its column and row range require, and a pass that
\* is over has committed every unit of every column of the table.
C15_StreamConformance ==
    (args.stream /\ ~args.validate /\ args.writeMode \in {"CELL", "CELLS"}
         /\ ValidShape(args)) =>
        /\ err.kind \notin {"conformance", "slicer"}
        /\ \A q \in 1..Len(units) : units[q].shape = RequiredShape(units[q])
        /\ FillOver => \A f \in tab.cols : Len(UnitsOf(f)) = LoopBound(args)

====
